---- MODULE Spec2Model ----
(***************************************************************************)
(* The Game Session Engine of the Backchodi Battle server                  *)
(* (src/server/backchodi-battle-puch.py): the per-caller session store and *)
(* the tool handlers start_backchodi_battle, join_battle, send_backchodi,  *)
(* get_game_status and list_active_games.                                  *)
(*                                                                         *)
(* Every handler is an operator from the store and the handler's inputs    *)
(* (arguments, plus what uuid4, time.time and the Content Generator hand   *)
(* back) to the store it leaves and the reply it gives.  In Spec every     *)
(* handler runs to completion, one request after the other; in SpecAsync   *)
(* the handlers are interleaved at their awaits.                           *)
(*                                                                         *)
(* Modelling conventions:                                                  *)
(*  - a dict is the sequence of its values in insertion order; every       *)
(*    session carries its key as session_id; a caller with no bucket yet   *)
(*    has the empty one (setdefault: no handler tells the two apart);      *)
(*  - a session id f"{puch_user_id}_{hex}" is the pair <<puch_user_id, n>>;*)
(*    uuid4 hands back either a suffix already used in the bucket or the   *)
(*    least unused one (unused suffixes are interchangeable);              *)
(*  - time.time() is a logical clock that ticks at each session creation;  *)
(*  - a float score is the exact rational [num, den]; a score handed back  *)
(*    by the Content Generator is a whole number of points;                *)
(*  - Python's None is the string "None".                                  *)
(***************************************************************************)
EXTENDS Integers, Sequences, FiniteSets, Bags, TLC

VARIABLES
    user_game_sessions,  \* puch_user_id -> the caller's sessions
    clock,               \* sessions created so far (the time of the last creation)
    n_sent,              \* messages accepted so far
    scoring,             \* a call of score_message_with_grok: its inputs and its score
    pending              \* the requests suspended at the Content Generator (a bag)

vars == <<user_game_sessions, clock, n_sent, scoring, pending>>

-----------------------------------------------------------------------------
(* Bounds of the model *)

\* Sessions ever created (over all callers).
MaxSessions == 2
\* Messages ever accepted (over all sessions): one duel, or two solo games.
MaxMessages == 10
\* Sessions ever created where the runs of the Content Generator are drawn.
MaxGrokSessions == 1
\* Sessions ever created where the requests are interleaved.
MaxRaceSessions == 1
\* Requests suspended at the Content Generator at one time.
MaxPending == 2

(* Program constants *)

\* GameSession.max_rounds default
DefaultMaxRounds == 5
\* max(1.0, min(10.0, score))
MinScore == 1
MaxScore == 10

None == "None"

\* GameMode
SOLO == "solo"
DUEL == "duel"
GameMode == {SOLO, DUEL}

\* GameState
WAITING == "waiting"
ACTIVE == "active"
SCORING == "scoring"
FINISHED == "finished"
GameState == {WAITING, ACTIVE, SCORING, FINISHED}

\* mcp.types error codes
INVALID_PARAMS == "INVALID_PARAMS"
INTERNAL_ERROR == "INTERNAL_ERROR"

(* Inputs *)

\* puch_user_id values a request may carry; "" is the missing identifier.
Callers == {"u1", "u2"}
CallerIds == Callers \cup {""}
\* player_name values: of the player who starts a session, and of any request
Starters == {"A"}
Names == {"A", "B"}
\* message values
Messages == {"m"}
\* Scores score_message_with_grok may hand back: the ends of [1.0, 10.0].
Scores == {MinScore, MaxScore}
\* The scores handed back for the n messages of a duel log (only their sum is
\* used): all of them, half of them or none of them the top score, the others
\* the bottom score.
ScoreSeqs(n) ==
    {[i \in 1 .. n |-> IF i <= k THEN MaxScore ELSE MinScore] :
        k \in {0, n \div 2, n}}
\* Session ids a request may name: a caller's own, and those of the others.
Suffixes == 1 .. MaxSessions
SessionIds == Callers \X Suffixes
NoId == <<"", 0>>

-----------------------------------------------------------------------------
(* Rational arithmetic for the float scores *)

Zero == [num |-> 0, den |-> 1]
\* The value of a division that raised ZeroDivisionError.
Raised == [num |-> 0, den |-> 0]
PyDiv(n, d) == IF d = 0 THEN Raised ELSE [num |-> n, den |-> d]
Plus(a, s) == [num |-> a.num + s * a.den, den |-> a.den]
Gt(a, b) == a.num * b.den > b.num * a.den

RECURSIVE SeqSum(_)
SeqSum(s) == IF s = <<>> THEN 0 ELSE Head(s) + SeqSum(Tail(s))

-----------------------------------------------------------------------------
(* Data model *)

Player(id, name) == [id |-> id, name |-> name, score |-> Zero, messages |-> <<>>]

GameSession(session_id, mode, state, created_at, players) ==
    [session_id |-> session_id, mode |-> mode, state |-> state,
     created_at |-> created_at, players |-> players, ai_messages |-> <<>>,
     current_round |-> 0, max_rounds |-> DefaultMaxRounds, winner |-> None]

\* A text the Content Generator hands back for a request, named by the request.
GrokText(context, player_name) == [context |-> context, player_name |-> player_name]

(* dict access *)
Keys(bucket) == {bucket[i].session_id : i \in 1 .. Len(bucket)}
IndexOf(bucket, session_id) ==
    CHOOSE i \in 1 .. Len(bucket) : bucket[i].session_id = session_id
Get(bucket, session_id) == bucket[IndexOf(bucket, session_id)]
\* bucket[session_id] = session
Put(bucket, session_id, session) ==
    IF session_id \in Keys(bucket)
    THEN [bucket EXCEPT ![IndexOf(bucket, session_id)] = session]
    ELSE Append(bucket, session)

\* Mutant: one bucket serves every caller.
_user_sessions_Shared(st, puch_user_id) == st["u1"]

\* user_game_sessions.setdefault(puch_user_id, {})
_user_sessions(st, puch_user_id) == st[puch_user_id]

(* Replies *)
\* A text result: which text it is, and what the text carries.
TextContent(text, detail) == [error |-> None, text |-> text, detail |-> detail]
McpError(code) == [error |-> code, text |-> None, detail |-> NoId]

-----------------------------------------------------------------------------
(* The Content Generator: scoring *)

\* A Python float: a finite rational, nan, inf or -inf.
Fin(n, d) == [kind |-> "fin", num |-> n, den |-> d]
NaN == [kind |-> "nan", num |-> 0, den |-> 1]
PosInf == [kind |-> "inf", num |-> 0, den |-> 1]
NegInf == [kind |-> "-inf", num |-> 0, den |-> 1]
\* In place of a float: float() raised ValueError, re.search found nothing, the
\* call raised, the call has not returned yet.
Unparsable == [kind |-> "ValueError", num |-> 0, den |-> 1]
NoMatch == [kind |-> "no match", num |-> 0, den |-> 1]
Propagated == [kind |-> "raised", num |-> 0, den |-> 1]
NotScored == [kind |-> "not scored", num |-> 0, den |-> 1]

\* a < b on floats: every comparison with nan is false.
PyLt(a, b) ==
    \/ a.kind = "-inf" /\ b.kind \in {"fin", "inf"}
    \/ a.kind = "fin" /\ b.kind = "inf"
    \/ a.kind = "fin" /\ b.kind = "fin" /\ a.num * b.den < b.num * a.den

\* min(a, b) and max(a, b): the first argument, unless the second is lower
\* (higher).
min(a, b) == IF PyLt(b, a) THEN b ELSE a
max(a, b) == IF PyLt(a, b) THEN b ELSE a

\* a + b on floats that are finite
AddF(a, b) == Fin(a.num * b.den + b.num * a.den, a.den * b.den)

\* Mutant: the score is the first argument of min and of max.
Clamp_ScoreFirst(score) == max(min(score, Fin(MaxScore, 1)), Fin(MinScore, 1))

\* max(1.0, min(10.0, score))
Clamp(score) == max(Fin(MinScore, 1), min(Fin(MaxScore, 1), score))

\* What generate_score reads of a message: its length, whether it holds one of
\* the words "lagta", "dekh", "sun", "arre", "yaar", "bhai", and whether it
\* holds one of the characters "!", the laughing face, the fire, the 100.
Lengths == {0, 1, 19, 20, 100, 101}
MessageTexts ==
    {t \in [len : Lengths, slang : BOOLEAN, emphasis : BOOLEAN] :
        t.len >= (IF t.slang THEN 3 ELSE 0) + (IF t.emphasis THEN 1 ELSE 0)}
\* random.uniform(-1.0, 1.0)
Jitters == {Fin(0 - 1, 1), Fin(0 - 1, 2), Fin(0, 1), Fin(1, 2), Fin(1, 1)}

generate_score(message, jitter) ==
    LET length == message.len
        base == Fin(5, 1)
        by_length == IF 20 <= length /\ length <= 100 THEN AddF(base, Fin(1, 1))
                     ELSE IF length > 100 THEN AddF(base, Fin(1, 2))
                     ELSE base
        by_words == IF message.slang THEN AddF(by_length, Fin(1, 1)) ELSE by_length
        by_chars == IF message.emphasis THEN AddF(by_words, Fin(1, 2)) ELSE by_words
    IN  Clamp(AddF(by_chars, jitter))

\* How the calls of one request fare: whether GROK_CLIENT is set, and which of
\* the generator functions have their chain.ainvoke raise (none of them, or
\* one: generate_grok_backchodi, score_message_with_grok, or those that only
\* word the reply).
GrokFunctions == {"backchodi", "score", "text"}
GrokRuns ==
    {[GROK_CLIENT |-> FALSE, raises |-> {}], [GROK_CLIENT |-> TRUE, raises |-> {}]}
        \cup {[GROK_CLIENT |-> TRUE, raises |-> {f}] : f \in GrokFunctions}
GrokAnswers == [GROK_CLIENT |-> TRUE, raises |-> {}]

\* Mutant: the generator functions have no except clause.
Generated_NoExcept(run, f) ==
    IF ~run.GROK_CLIENT THEN "fallback"
    ELSE IF f \in run.raises THEN "raised"
    ELSE "grok"

\* Where the value a generator function returns comes from: every one of them
\* returns its fallback when GROK_CLIENT is not set and when the call raises.
Generated(run, f) ==
    IF ~run.GROK_CLIENT THEN "fallback"
    ELSE IF f \in run.raises THEN "fallback"
    ELSE "grok"

\* What score_message_with_grok reads of Grok's response: whether it holds a
\* "|", what float() makes of the text before it, and the first number
\* re.search(r"(\d+\.?\d*)") finds in it.
Heads ==
    {Unparsable, NaN, PosInf, NegInf, Fin(0 - 3, 1), Fin(0, 1), Fin(1, 2),
     Fin(1, 1), Fin(15, 2), Fin(10, 1), Fin(21, 2), Fin(100, 1)}
Numbers == {NoMatch, Fin(0, 1), Fin(1, 2), Fin(15, 2), Fin(10, 1), Fin(85, 1)}
Responses ==
    {r \in [bar : BOOLEAN, head : Heads, number : Numbers] :
        ~r.bar => r.head = Unparsable}

\* The score score_message_with_grok returns.
score_message_with_grok(run, response, message, jitter) ==
    CASE Generated(run, "score") = "fallback" -> generate_score(message, jitter)
      [] Generated(run, "score") = "raised" -> Propagated
      [] Generated(run, "score") = "grok" ->
            IF response.bar /\ response.head # Unparsable
            THEN Clamp(response.head)
            ELSE IF response.number # NoMatch
            THEN Clamp(response.number)
            ELSE Fin(5, 1)

-----------------------------------------------------------------------------
(* start_backchodi_battle *)

\* Mutant: a waiting session does not count as in progress.
InFlight_ActiveOnly(bucket) == SelectSeq(bucket, LAMBDA s : s.state = ACTIVE)

\* Mutant: finished sessions count as in progress too.
InFlight_Every(bucket) == SelectSeq(bucket, LAMBDA s : s.state \in GameState)

\* Mutant: a solo session counts as in progress once its opening challenge is
\* in the content log.
InFlight_Opened(bucket) ==
    SelectSeq(bucket, LAMBDA s : /\ s.state \in {WAITING, ACTIVE}
                                 /\ s.mode = SOLO => s.ai_messages # <<>>)

\* Sessions of a bucket in state waiting or active, in insertion order.
InFlight(bucket) == SelectSeq(bucket, LAMBDA s : s.state \in {WAITING, ACTIVE})

\* Mutant: the state does not depend on the mode.
start_session_AlwaysActive(puch_user_id, mode, player_name, uuid, now) ==
    GameSession(<<puch_user_id, uuid>>, mode, ACTIVE,
                now, <<Player("player_1", player_name)>>)

\* Mutant: every session starts waiting for an opponent.
start_session_AlwaysWaiting(puch_user_id, mode, player_name, uuid, now) ==
    GameSession(<<puch_user_id, uuid>>, mode, WAITING,
                now, <<Player("player_1", player_name)>>)

\* The session as constructed and inserted, before the opening challenge.
start_session(puch_user_id, mode, player_name, uuid, now) ==
    GameSession(<<puch_user_id, uuid>>, mode,
                IF mode = DUEL THEN WAITING ELSE ACTIVE,
                now, <<Player("player_1", player_name)>>)

\* Mutant: the round counter is left at 0.
start_opened_NoRound(session, ai_opener) ==
    [session EXCEPT !.ai_messages = Append(@, ai_opener)]

\* The solo session once the opening challenge has come back.
start_opened(session, ai_opener) ==
    [session EXCEPT !.ai_messages = Append(@, ai_opener), !.current_round = 1]

start_backchodi_battle(st, puch_user_id, mode, player_name, uuid, now) ==
    IF puch_user_id = ""
    THEN [store |-> st, reply |-> McpError(INVALID_PARAMS)]
    ELSE LET user_sessions == _user_sessions(st, puch_user_id)
             active_sessions == InFlight(user_sessions)
             session_id == <<puch_user_id, uuid>>
             session == start_session(puch_user_id, mode, player_name, uuid, now)
             ai_opener == GrokText(<<"Solo battle start", 0>>, <<player_name>>)
             done == IF mode = SOLO THEN start_opened(session, ai_opener) ELSE session
         IN  IF active_sessions # <<>>
             THEN [store |-> st,
                   reply |-> TextContent("Game already in progress!",
                                         active_sessions[1].session_id)]
             ELSE [store |-> [st EXCEPT ![puch_user_id] =
                                       Put(user_sessions, session_id, done)],
                   reply |-> TextContent(IF mode = SOLO
                                         THEN "Backchodi Battle Started!"
                                         ELSE "Backchodi Battle Created!",
                                         session_id)]

-----------------------------------------------------------------------------
(* join_battle *)

\* Mutant: the session is not activated.
join_register_StaysWaiting(session, player_name) ==
    [session EXCEPT !.players = Append(@, Player("player_2", player_name)),
                    !.current_round = 1]

\* Player 2 registered and the session activated, before the opening challenge.
join_register(session, player_name) ==
    [session EXCEPT !.players = Append(@, Player("player_2", player_name)),
                    !.state = ACTIVE,
                    !.current_round = 1]

\* The duel once the opening challenge has come back.
join_opened(session, ai_opener) ==
    [session EXCEPT !.ai_messages = Append(@, ai_opener)]

\* Mutant: player 2 is registered before the session is looked at.
join_battle_RegistersFirst(st, puch_user_id, session_id, player_name) ==
    IF puch_user_id = ""
    THEN [store |-> st, reply |-> McpError(INVALID_PARAMS)]
    ELSE LET user_sessions == _user_sessions(st, puch_user_id)
         IN  IF session_id \notin Keys(user_sessions)
             THEN [store |-> st,
                   reply |-> TextContent("Invalid session ID! Game not found.", NoId)]
             ELSE LET session == Get(user_sessions, session_id)
                      ai_opener == GrokText(<<"Duel battle topic", 0>>,
                                            <<session.players[1].name, player_name>>)
                      registered == [session EXCEPT !.players =
                                        Append(@, Player("player_2", player_name))]
                      early == [st EXCEPT ![puch_user_id] =
                                   Put(user_sessions, session_id, registered)]
                      done == join_opened(join_register(session, player_name), ai_opener)
                  IN  IF session.mode # DUEL
                      THEN [store |-> early,
                            reply |-> TextContent("This is not a duel battle!", NoId)]
                      ELSE IF session.state # WAITING
                      THEN [store |-> early,
                            reply |-> TextContent("Game is not accepting new players!", NoId)]
                      ELSE [store |-> [st EXCEPT ![puch_user_id] =
                                                Put(user_sessions, session_id, done)],
                            reply |-> TextContent("Battle Joined Successfully!", NoId)]

join_battle(st, puch_user_id, session_id, player_name) ==
    IF puch_user_id = ""
    THEN [store |-> st, reply |-> McpError(INVALID_PARAMS)]
    ELSE LET user_sessions == _user_sessions(st, puch_user_id)
         IN  IF session_id \notin Keys(user_sessions)
             THEN [store |-> st,
                   reply |-> TextContent("Invalid session ID! Game not found.", NoId)]
             ELSE LET session == Get(user_sessions, session_id)
                      ai_opener == GrokText(<<"Duel battle topic", 0>>,
                                            <<session.players[1].name, player_name>>)
                      done == join_opened(join_register(session, player_name), ai_opener)
                  IN  IF session.mode # DUEL
                      THEN [store |-> st,
                            reply |-> TextContent("This is not a duel battle!", NoId)]
                      ELSE IF session.state # WAITING
                      THEN [store |-> st,
                            reply |-> TextContent("Game is not accepting new players!", NoId)]
                      ELSE IF Len(session.players) >= 2
                      THEN [store |-> st,
                            reply |-> TextContent("Battle is already full!", NoId)]
                      ELSE [store |-> [st EXCEPT ![puch_user_id] =
                                                Put(user_sessions, session_id, done)],
                            reply |-> TextContent("Battle Joined Successfully!", NoId)]

-----------------------------------------------------------------------------
(* send_backchodi *)

\* Mutant: a name nobody registered stands for the first player.
FindPlayer_DefaultsToFirst(session, player_name) ==
    LET hits == {i \in 1 .. Len(session.players) :
                     session.players[i].name = player_name}
    IN  IF hits = {} THEN 1 ELSE CHOOSE i \in hits : \A j \in hits : i <= j

\* Mutant: the last registered player of that name is taken.
FindPlayer_LastMatch(session, player_name) ==
    LET hits == {i \in 1 .. Len(session.players) :
                     session.players[i].name = player_name}
    IN  IF hits = {} THEN 0 ELSE CHOOSE i \in hits : \A j \in hits : i >= j

\* The first registered player called player_name (0: there is none).
FindPlayer(session, player_name) ==
    LET hits == {i \in 1 .. Len(session.players) :
                     session.players[i].name = player_name}
    IN  IF hits = {} THEN 0 ELSE CHOOSE i \in hits : \A j \in hits : i <= j

\* Mutant: the state of the session is not looked at.
send_rejection_AnyState(user_sessions, session_id, player_name) ==
    IF session_id \notin Keys(user_sessions)
    THEN "Invalid session ID! Game not found."
    ELSE IF FindPlayer(Get(user_sessions, session_id), player_name) = 0
    THEN "Player not found in this game!"
    ELSE None

\* Mutant: only a session that is still waiting is closed to messages.
send_rejection_NotWaiting(user_sessions, session_id, player_name) ==
    IF session_id \notin Keys(user_sessions)
    THEN "Invalid session ID! Game not found."
    ELSE IF Get(user_sessions, session_id).state = WAITING
    THEN "Game is not active!"
    ELSE IF FindPlayer(Get(user_sessions, session_id), player_name) = 0
    THEN "Player not found in this game!"
    ELSE None

\* The text that rejects the request (None: the request is accepted).
send_rejection(user_sessions, session_id, player_name) ==
    IF session_id \notin Keys(user_sessions)
    THEN "Invalid session ID! Game not found."
    ELSE IF Get(user_sessions, session_id).state \notin {ACTIVE, SCORING}
    THEN "Game is not active!"
    ELSE IF FindPlayer(Get(user_sessions, session_id), player_name) = 0
    THEN "Player not found in this game!"
    ELSE None

\* player.messages.append(message)
send_append(session, p, message) ==
    [session EXCEPT !.players[p].messages = Append(@, message)]

\* Mutant: the score of the round replaces the total.
solo_scored_Overwrites(session, p, score) ==
    [session EXCEPT !.players[p].score = Plus(Zero, score),
                    !.current_round = @ + 1]

\* Mutant: a score that comes back for a session no longer active is dropped.
solo_scored_OnlyIfActive(session, p, score) ==
    IF session.state = ACTIVE
    THEN [session EXCEPT !.players[p].score = Plus(@, score),
                         !.current_round = @ + 1]
    ELSE session

\* Solo: the score has come back.
solo_scored(session, p, score) ==
    [session EXCEPT !.players[p].score = Plus(@, score),
                    !.current_round = @ + 1]

\* Mutant: the last round is not played.
solo_advance_OffByOne(session, ai_response) ==
    IF session.current_round < session.max_rounds
    THEN [session EXCEPT !.ai_messages = Append(@, ai_response)]
    ELSE [session EXCEPT !.state = FINISHED]

\* Mutant: the solo player is recorded as the winner.
solo_advance_SetsWinner(session, ai_response) ==
    IF session.current_round <= session.max_rounds
    THEN [session EXCEPT !.ai_messages = Append(@, ai_response)]
    ELSE [session EXCEPT !.state = FINISHED, !.winner = session.players[1].name]

\* Mutant: a challenge is appended after the last round too.
solo_advance_AlwaysAppends(session, ai_response) ==
    IF session.current_round <= session.max_rounds
    THEN [session EXCEPT !.ai_messages = Append(@, ai_response)]
    ELSE [session EXCEPT !.ai_messages = Append(@, ai_response), !.state = FINISHED]

\* session.ai_messages.append(ai_response)
solo_challenged(session, ai_response) ==
    [session EXCEPT !.ai_messages = Append(@, ai_response)]

\* session.state = GameState.FINISHED
solo_finished(session) == [session EXCEPT !.state = FINISHED]

\* Solo: the next challenge is appended, or the session finishes.
solo_advance(session, ai_response) ==
    IF session.current_round <= session.max_rounds
    THEN [session EXCEPT !.ai_messages = Append(@, ai_response)]
    ELSE [session EXCEPT !.state = FINISHED]

\* Mutant: only the first player's messages are counted.
TotalMessages_FirstPlayer(session) == Len(session.players[1].messages)

\* len([msg for p in session.players for msg in p.messages])
TotalMessages(session) ==
    SeqSum([i \in 1 .. Len(session.players) |-> Len(session.players[i].messages)])

\* Mutant: the round advances on every message.
duel_round_EveryMessage(session) ==
    LET advanced == [session EXCEPT !.current_round = @ + 1]
    IN  IF advanced.current_round > advanced.max_rounds
        THEN [advanced EXCEPT !.state = FINISHED]
        ELSE advanced

\* Mutant: past max_rounds the session is marked as being scored.
duel_round_MarksScoring(session) ==
    LET advanced == [session EXCEPT !.current_round = @ + 1]
    IN  IF TotalMessages(session) % 2 = 0
        THEN IF advanced.current_round > advanced.max_rounds
             THEN [advanced EXCEPT !.state = SCORING]
             ELSE advanced
        ELSE session

\* Duel: the round advances on an even message count, and past max_rounds the
\* session finishes.
duel_round(session) ==
    LET advanced == [session EXCEPT !.current_round = @ + 1]
    IN  IF TotalMessages(session) % 2 = 0
        THEN IF advanced.current_round > advanced.max_rounds
             THEN [advanced EXCEPT !.state = FINISHED]
             ELSE advanced
        ELSE session

\* The duel's scoring branch is taken.
duel_finishes(session) ==
    /\ TotalMessages(session) % 2 = 0
    /\ duel_round(session).current_round > session.max_rounds

\* Mutant: an empty log is averaged like any other.
Average_Unguarded(scores) == PyDiv(SeqSum(scores), Len(scores))

\* sum(scores) / len(scores) if scores else 0
Average(scores) ==
    IF scores # <<>> THEN PyDiv(SeqSum(scores), Len(scores)) ELSE Zero

\* session.winner from the two averages
Winner(session, player1_avg, player2_avg) ==
    IF Gt(player1_avg, player2_avg) THEN session.players[1].name
    ELSE IF Gt(player2_avg, player1_avg) THEN session.players[2].name
    ELSE None

\* Duel: every message scored (scoresN[i] is the score that came back for the
\* i-th message of player N), the averages stored and the winner set.  A
\* division that raises leaves the handler before any of it is stored.
duel_scored(session, scores1, scores2) ==
    LET player1_scores == [i \in 1 .. Len(session.players[1].messages) |-> scores1[i]]
        player2_scores == [i \in 1 .. Len(session.players[2].messages) |-> scores2[i]]
        player1_avg == Average(player1_scores)
        player2_avg == Average(player2_scores)
    IN  IF Raised \in {player1_avg, player2_avg}
        THEN session
        ELSE [session EXCEPT !.players[1].score = player1_avg,
                             !.players[2].score = player2_avg,
                             !.winner = Winner(session, player1_avg, player2_avg)]

\* What the Content Generator hands back to one request: the score of a solo
\* message, and the scores of the two logs of a finishing duel.
Gen(score, scores1, scores2) ==
    [score |-> score, player1_scores |-> scores1, player2_scores |-> scores2]
NoGen == Gen(MinScore, <<>>, <<>>)

send_backchodi(st, puch_user_id, session_id, player_name, message, gen) ==
    IF puch_user_id = ""
    THEN [store |-> st, reply |-> McpError(INVALID_PARAMS)]
    ELSE LET user_sessions == _user_sessions(st, puch_user_id)
             rejection == send_rejection(user_sessions, session_id, player_name)
         IN  IF rejection # None
             THEN [store |-> st, reply |-> TextContent(rejection, NoId)]
             ELSE LET session == Get(user_sessions, session_id)
                      p == FindPlayer(session, player_name)
                      sent == send_append(session, p, message)
                      scored == solo_scored(sent, p, gen.score)
                      solo == solo_advance(scored,
                                  GrokText(<<"Counter-attack round", scored.current_round>>,
                                           <<player_name>>))
                      round == duel_round(sent)
                      duel == IF duel_finishes(sent)
                              THEN duel_scored(round, gen.player1_scores,
                                               gen.player2_scores)
                              ELSE round
                      done == IF sent.mode = SOLO THEN solo ELSE duel
                      store == [st EXCEPT ![puch_user_id] =
                                    Put(user_sessions, session_id, done)]
                  IN  IF sent.mode = SOLO
                      THEN IF scored.current_round <= scored.max_rounds
                           THEN [store |-> store,
                                 reply |-> TextContent("Round Score", gen.score)]
                           ELSE [store |-> store,
                                 reply |-> TextContent("GAME FINISHED!",
                                     PyDiv(scored.players[p].score.num,
                                           scored.max_rounds))]
                      ELSE IF duel_finishes(sent)
                           THEN IF Raised \in {Average(gen.player1_scores),
                                               Average(gen.player2_scores)}
                                THEN [store |-> store, reply |-> McpError(INTERNAL_ERROR)]
                                ELSE [store |-> store,
                                      reply |-> TextContent("DUEL FINISHED!", duel.winner)]
                           ELSE [store |-> store,
                                 reply |-> TextContent("Message sent!",
                                                       TotalMessages(sent))]

\* The answers the Content Generator may give to this request.
SendGens(st, puch_user_id, session_id, player_name, message) ==
    IF puch_user_id = ""
    THEN {NoGen}
    ELSE LET user_sessions == _user_sessions(st, puch_user_id)
         IN  IF send_rejection(user_sessions, session_id, player_name) # None
             THEN {NoGen}
             ELSE LET session == Get(user_sessions, session_id)
                      sent == send_append(session, FindPlayer(session, player_name),
                                          message)
                  IN  IF sent.mode = SOLO
                      THEN {Gen(s, <<>>, <<>>) : s \in Scores}
                      ELSE IF duel_finishes(sent)
                      THEN {Gen(MinScore, f, g) :
                              f \in ScoreSeqs(Len(sent.players[1].messages)),
                              g \in ScoreSeqs(Len(sent.players[2].messages))}
                      ELSE {NoGen}

-----------------------------------------------------------------------------
(* get_game_status and list_active_games *)

\* One player's line of the status text: the score is shown in solo mode and
\* once the session is finished.
StatusLine(session, player) ==
    [name |-> player.name,
     score |-> IF session.mode = SOLO \/ session.state = FINISHED
               THEN player.score ELSE None]

\* Neither handler lets an McpError through: it is raised again as an
\* internal error.
get_game_status(st, puch_user_id, session_id) ==
    IF puch_user_id = ""
    THEN [store |-> st, reply |-> McpError(INTERNAL_ERROR)]
    ELSE LET user_sessions == _user_sessions(st, puch_user_id)
         IN  IF session_id \notin Keys(user_sessions)
             THEN [store |-> st,
                   reply |-> TextContent("Invalid session ID! Game not found.", NoId)]
             ELSE LET session == Get(user_sessions, session_id)
                  IN  [store |-> st,
                       reply |-> TextContent("Game Status",
                           [session_id |-> session_id,
                            mode |-> session.mode,
                            state |-> session.state,
                            current_round |-> session.current_round,
                            max_rounds |-> session.max_rounds,
                            players |-> [i \in 1 .. Len(session.players) |->
                                            StatusLine(session, session.players[i])],
                            winner |-> IF session.state = FINISHED
                                       THEN session.winner ELSE None])]

\* Mutant: listing drops the caller's finished sessions from the store.
list_active_games_Prunes(st, puch_user_id) ==
    IF puch_user_id = ""
    THEN [store |-> st, reply |-> McpError(INTERNAL_ERROR)]
    ELSE LET active_games == InFlight(_user_sessions(st, puch_user_id))
             pruned == [st EXCEPT ![puch_user_id] = active_games]
         IN  IF active_games = <<>>
             THEN [store |-> pruned, reply |-> TextContent("No active games found!", <<>>)]
             ELSE [store |-> pruned,
                   reply |-> TextContent("Active Games:",
                       [i \in 1 .. Len(active_games) |-> active_games[i].session_id])]

list_active_games(st, puch_user_id) ==
    IF puch_user_id = ""
    THEN [store |-> st, reply |-> McpError(INTERNAL_ERROR)]
    ELSE LET active_games == InFlight(_user_sessions(st, puch_user_id))
         IN  IF active_games = <<>>
             THEN [store |-> st, reply |-> TextContent("No active games found!", <<>>)]
             ELSE [store |-> st,
                   reply |-> TextContent("Active Games:",
                       [i \in 1 .. Len(active_games) |-> active_games[i].session_id])]

-----------------------------------------------------------------------------
(* The state machine: every request runs to completion. *)

\* A call of score_message_with_grok that has not returned yet.
ScoreCall(run, response, message, jitter) ==
    [run |-> run, response |-> response, message |-> message, jitter |-> jitter,
     score |-> NotScored]
\* In Spec the scores are inputs of Send (Scores): no call is followed.
NoCall ==
    ScoreCall(GrokAnswers, [bar |-> FALSE, head |-> Unparsable, number |-> NoMatch],
              [len |-> 0, slang |-> FALSE, emphasis |-> FALSE], Fin(0, 1))

Init ==
    /\ user_game_sessions = [c \in Callers |-> <<>>]
    /\ clock = 0
    /\ n_sent = 0
    /\ scoring = NoCall
    /\ pending = EmptyBag

\* uuid.uuid4().hex[:8]: a suffix the bucket already uses, or the least unused.
Uuids(st, puch_user_id) ==
    LET used == IF puch_user_id \in DOMAIN st
                THEN {k[2] : k \in Keys(st[puch_user_id])} ELSE {}
    IN  used \cup {n \in Suffixes : n \notin used /\ \A m \in Suffixes \ used : n <= m}

\* The request created a session.
Created(reply) ==
    reply.text \in {"Backchodi Battle Started!", "Backchodi Battle Created!"}

\* The request appended a message to a player's log.
Accepted(reply) ==
    reply.text \in {"Round Score", "GAME FINISHED!", "DUEL FINISHED!", "Message sent!"}

Start ==
    \E puch_user_id \in CallerIds, mode \in GameMode, player_name \in Starters :
        \E uuid \in Uuids(user_game_sessions, puch_user_id) :
            \E r \in {start_backchodi_battle(user_game_sessions, puch_user_id, mode,
                                             player_name, uuid, clock + 1)} :
                /\ Created(r.reply) => clock < MaxSessions
                /\ user_game_sessions' = r.store
                /\ clock' = IF Created(r.reply) THEN clock + 1 ELSE clock
                /\ UNCHANGED <<n_sent, scoring, pending>>

Join ==
    \E puch_user_id \in CallerIds, session_id \in SessionIds, player_name \in Names :
        /\ user_game_sessions' =
               join_battle(user_game_sessions, puch_user_id, session_id,
                           player_name).store
        /\ UNCHANGED <<clock, n_sent, scoring, pending>>

Send ==
    \E puch_user_id \in CallerIds, session_id \in SessionIds,
       player_name \in Names, message \in Messages :
        \E gen \in SendGens(user_game_sessions, puch_user_id, session_id,
                            player_name, message) :
            \E r \in {send_backchodi(user_game_sessions, puch_user_id, session_id,
                                     player_name, message, gen)} :
                /\ Accepted(r.reply) => n_sent < MaxMessages
                /\ user_game_sessions' = r.store
                /\ n_sent' = IF Accepted(r.reply) THEN n_sent + 1 ELSE n_sent
                /\ UNCHANGED <<clock, scoring, pending>>

Status ==
    \E puch_user_id \in CallerIds, session_id \in SessionIds :
        /\ user_game_sessions' =
               get_game_status(user_game_sessions, puch_user_id, session_id).store
        /\ UNCHANGED <<clock, n_sent, scoring, pending>>

List ==
    \E puch_user_id \in CallerIds :
        /\ user_game_sessions' = list_active_games(user_game_sessions, puch_user_id).store
        /\ UNCHANGED <<clock, n_sent, scoring, pending>>

Next == Start \/ Join \/ Send \/ Status \/ List

Spec == Init /\ [][Next]_vars

-----------------------------------------------------------------------------
(* The handlers under a run of the Content Generator.  A call that returns
   (Grok's answer or the fallback) leaves the handler on its way; a call that
   raised would take the handler to its except clause, after what it had
   written so far.  Since no call raises whatever the run, Spec does not draw
   the run. *)

start_backchodi_battle_grok(st, puch_user_id, mode, player_name, uuid, now, run) ==
    LET r == start_backchodi_battle(st, puch_user_id, mode, player_name, uuid, now)
        session == start_session(puch_user_id, mode, player_name, uuid, now)
    IN  IF Created(r.reply) /\ mode = SOLO /\ Generated(run, "backchodi") = "raised"
        THEN [store |-> [st EXCEPT ![puch_user_id] =
                            Put(_user_sessions(st, puch_user_id),
                                <<puch_user_id, uuid>>, session)],
              reply |-> McpError(INTERNAL_ERROR)]
        ELSE r

join_battle_grok(st, puch_user_id, session_id, player_name, run) ==
    LET r == join_battle(st, puch_user_id, session_id, player_name)
    IN  IF r.reply.text = "Battle Joined Successfully!"
              /\ Generated(run, "backchodi") = "raised"
        THEN LET user_sessions == _user_sessions(st, puch_user_id)
                 session == Get(user_sessions, session_id)
             IN  [store |-> [st EXCEPT ![puch_user_id] =
                                Put(user_sessions, session_id,
                                    join_register(session, player_name))],
                  reply |-> McpError(INTERNAL_ERROR)]
        ELSE r

send_backchodi_grok(st, puch_user_id, session_id, player_name, message, gen, run) ==
    LET r == send_backchodi(st, puch_user_id, session_id, player_name, message, gen)
    IN  IF ~Accepted(r.reply)
        THEN r
        ELSE LET user_sessions == _user_sessions(st, puch_user_id)
                 session == Get(user_sessions, session_id)
                 p == FindPlayer(session, player_name)
                 sent == send_append(session, p, message)
                 scored == solo_scored(sent, p, gen.score)
                 left(s) == [store |-> [st EXCEPT ![puch_user_id] =
                                           Put(user_sessions, session_id, s)],
                             reply |-> McpError(INTERNAL_ERROR)]
                 late == [store |-> r.store, reply |-> McpError(INTERNAL_ERROR)]
             IN  IF sent.mode = SOLO
                 THEN IF Generated(run, "score") = "raised" THEN left(sent)
                      ELSE IF scored.current_round <= scored.max_rounds
                      THEN IF Generated(run, "backchodi") = "raised"
                           THEN left(scored) ELSE r
                      ELSE IF Generated(run, "text") = "raised" THEN late ELSE r
                 ELSE IF duel_finishes(sent)
                 THEN IF Generated(run, "score") = "raised" THEN left(duel_round(sent))
                      ELSE IF Generated(run, "text") = "raised" THEN late ELSE r
                 ELSE IF Generated(run, "text") = "raised" THEN late ELSE r

-----------------------------------------------------------------------------
(* Create, Join and Submit under every run of the Content Generator, over the
   life of one session at a time. *)

StartGrok ==
    \E puch_user_id \in CallerIds, mode \in GameMode, player_name \in Starters :
        \E uuid \in Uuids(user_game_sessions, puch_user_id), run \in GrokRuns :
            \E r \in {start_backchodi_battle_grok(user_game_sessions, puch_user_id,
                          mode, player_name, uuid, clock + 1, run)} :
                /\ Created(r.reply) => clock < MaxGrokSessions
                /\ user_game_sessions' = r.store
                /\ clock' = IF Created(r.reply) THEN clock + 1 ELSE clock
                /\ UNCHANGED <<n_sent, scoring, pending>>

JoinGrok ==
    \E puch_user_id \in CallerIds, session_id \in SessionIds, player_name \in Names :
        \E run \in GrokRuns :
            /\ user_game_sessions' =
                   join_battle_grok(user_game_sessions, puch_user_id, session_id,
                                    player_name, run).store
            /\ UNCHANGED <<clock, n_sent, scoring, pending>>

SendGrok ==
    \E puch_user_id \in CallerIds, session_id \in SessionIds,
       player_name \in Names, message \in Messages :
        \E gen \in SendGens(user_game_sessions, puch_user_id, session_id,
                            player_name, message), run \in GrokRuns :
            \E r \in {send_backchodi_grok(user_game_sessions, puch_user_id,
                          session_id, player_name, message, gen, run)} :
                /\ Accepted(r.reply) => n_sent < MaxMessages
                /\ user_game_sessions' = r.store
                /\ n_sent' = IF Accepted(r.reply) THEN n_sent + 1 ELSE n_sent
                /\ UNCHANGED <<clock, scoring, pending>>

NextGrok == StartGrok \/ JoinGrok \/ SendGrok

SpecGrok == Init /\ [][NextGrok]_vars

-----------------------------------------------------------------------------
(* The scoring of one message, on its own: a call of score_message_with_grok
   with any message, any jitter of the heuristic and any fate of the call. *)

ScoreRuns ==
    {run \in GrokRuns : run.raises \subseteq {"score"}}

InitScore ==
    /\ user_game_sessions = [c \in Callers |-> <<>>]
    /\ clock = 0
    /\ n_sent = 0
    /\ scoring \in {ScoreCall(run, response, message, jitter) :
                        run \in ScoreRuns, response \in Responses,
                        message \in MessageTexts, jitter \in Jitters}
    /\ pending = EmptyBag

ScoreMessage ==
    /\ scoring.score = NotScored
    /\ scoring' = [scoring EXCEPT !.score =
                      score_message_with_grok(scoring.run, scoring.response,
                                              scoring.message, scoring.jitter)]
    /\ UNCHANGED <<user_game_sessions, clock, n_sent, pending>>

NextScore == ScoreMessage

SpecScore == InitScore /\ [][NextScore]_vars

-----------------------------------------------------------------------------
(* The handlers as coroutines.  A handler runs without interruption from one
   await to the next; while it waits for the Content Generator, other requests
   run.  A suspended request keeps its locals: the session object it looked
   up, the player it found, the round its challenge was asked for.  An await
   after the handler's last write to the session (verdict, announcement,
   waiting message) only delays the reply and is not followed.  (An await
   yields to the event loop when a Grok client is configured and the call
   goes out to it.) *)

\* The callers whose requests are interleaved.
Racers == {"u1"}

\* A request suspended at an await of `at`.
Suspended(op, at, puch_user_id, session, p, round) ==
    [op |-> op, at |-> at, puch_user_id |-> puch_user_id,
     session_id |-> session.session_id, created_at |-> session.created_at,
     p |-> p, round |-> round]

\* The store still holds the session object of the suspended request q under
\* its key (a Create may have put another object there).
Holds(st, q) ==
    /\ q.session_id \in Keys(st[q.puch_user_id])
    /\ Get(st[q.puch_user_id], q.session_id).created_at = q.created_at
Object(st, q) == Get(st[q.puch_user_id], q.session_id)
\* The store once q has left its session object as `session`.
Written(st, q, session) ==
    IF Holds(st, q)
    THEN [st EXCEPT ![q.puch_user_id] = Put(@, q.session_id, session)]
    ELSE st

\* Create up to its await: the check, the insertion, and for a solo session
\* the call that asks for the opening challenge.
StartAsync ==
    \E puch_user_id \in Racers, mode \in GameMode, player_name \in Starters :
        \E uuid \in Uuids(user_game_sessions, puch_user_id) :
            LET st == user_game_sessions
                r == start_backchodi_battle(st, puch_user_id, mode, player_name,
                                            uuid, clock + 1)
                session == start_session(puch_user_id, mode, player_name, uuid,
                                         clock + 1)
                awaits == Created(r.reply) /\ mode = SOLO
            IN  /\ Created(r.reply) => clock < MaxRaceSessions
                /\ awaits => BagCardinality(pending) < MaxPending
                /\ user_game_sessions' =
                       IF Created(r.reply)
                       THEN [st EXCEPT ![puch_user_id] =
                                Put(_user_sessions(st, puch_user_id),
                                    session.session_id, session)]
                       ELSE st
                /\ clock' = IF Created(r.reply) THEN clock + 1 ELSE clock
                /\ pending' =
                       IF awaits
                       THEN pending (+) SetToBag({Suspended("start", "opener",
                                                     puch_user_id, session, 1, 0)})
                       ELSE pending
                /\ UNCHANGED <<n_sent, scoring>>

\* Create after its await: the opening challenge has come back.
StartResume ==
    \E q \in BagToSet(pending) :
        /\ q.op = "start"
        /\ user_game_sessions' =
               IF Holds(user_game_sessions, q)
               THEN LET session == Object(user_game_sessions, q)
                        ai_opener == GrokText(<<"Solo battle start", 0>>,
                                              <<session.players[1].name>>)
                    IN  Written(user_game_sessions, q, start_opened(session, ai_opener))
               ELSE user_game_sessions
        /\ pending' = pending (-) SetToBag({q})
        /\ UNCHANGED <<clock, n_sent, scoring>>

\* Join up to its await: the checks, player 2 registered, the session
\* activated, and the call that asks for the opening challenge.
JoinAsync ==
    \E puch_user_id \in Racers, session_id \in SessionIds, player_name \in Names :
        LET st == user_game_sessions
            r == join_battle(st, puch_user_id, session_id, player_name)
            awaits == r.reply.text = "Battle Joined Successfully!"
        IN  /\ awaits => BagCardinality(pending) < MaxPending
            /\ IF awaits
               THEN LET user_sessions == _user_sessions(st, puch_user_id)
                        session == join_register(Get(user_sessions, session_id),
                                                 player_name)
                    IN  /\ user_game_sessions' =
                               [st EXCEPT ![puch_user_id] =
                                   Put(user_sessions, session_id, session)]
                        /\ pending' =
                               pending (+) SetToBag({Suspended("join", "opener",
                                                       puch_user_id, session, 2, 0)})
               ELSE UNCHANGED <<user_game_sessions, pending>>
            /\ UNCHANGED <<clock, n_sent, scoring>>

\* Join after its await: the opening challenge has come back.
JoinResume ==
    \E q \in BagToSet(pending) :
        /\ q.op = "join"
        /\ user_game_sessions' =
               IF Holds(user_game_sessions, q)
               THEN LET session == Object(user_game_sessions, q)
                        ai_opener == GrokText(<<"Duel battle topic", 0>>,
                                              <<session.players[1].name,
                                                session.players[2].name>>)
                    IN  Written(user_game_sessions, q, join_opened(session, ai_opener))
               ELSE user_game_sessions
        /\ pending' = pending (-) SetToBag({q})
        /\ UNCHANGED <<clock, n_sent, scoring>>

\* Submit up to its first await: the checks and the message appended; solo:
\* the call that scores it; duel: the round advanced, the session finished
\* past max_rounds, and then the calls that score the two logs.
SendAsync ==
    \E puch_user_id \in Racers, session_id \in SessionIds,
       player_name \in Names, message \in Messages :
        LET st == user_game_sessions
            user_sessions == _user_sessions(st, puch_user_id)
        IN  /\ send_rejection(user_sessions, session_id, player_name) = None
            /\ n_sent < MaxMessages
            /\ LET session == Get(user_sessions, session_id)
                   p == FindPlayer(session, player_name)
                   sent == send_append(session, p, message)
                   left == IF sent.mode = SOLO THEN sent ELSE duel_round(sent)
                   awaits == sent.mode = SOLO \/ duel_finishes(sent)
               IN  /\ awaits => BagCardinality(pending) < MaxPending
                   /\ user_game_sessions' =
                          [st EXCEPT ![puch_user_id] =
                              Put(user_sessions, session_id, left)]
                   /\ pending' =
                          IF awaits
                          THEN pending (+) SetToBag({Suspended("send",
                                   IF sent.mode = SOLO THEN "score" ELSE "scores",
                                   puch_user_id, sent, p, sent.current_round)})
                          ELSE pending
            /\ n_sent' = n_sent + 1
            /\ UNCHANGED <<clock, scoring>>

\* Solo Submit after its first await: the score has come back; the round
\* advances, and the next challenge is asked for or the session finishes.
SendScored ==
    \E q \in BagToSet(pending), score \in Scores :
        /\ q.at = "score"
        /\ IF Holds(user_game_sessions, q)
           THEN LET scored == solo_scored(Object(user_game_sessions, q), q.p, score)
                IN  IF scored.current_round <= scored.max_rounds
                    THEN /\ user_game_sessions' = Written(user_game_sessions, q, scored)
                         /\ pending' = (pending (-) SetToBag({q}))
                                (+) SetToBag({[q EXCEPT !.at = "challenge",
                                                        !.round = scored.current_round]})
                    ELSE /\ user_game_sessions' =
                                Written(user_game_sessions, q, solo_finished(scored))
                         /\ pending' = pending (-) SetToBag({q})
           ELSE /\ pending' = pending (-) SetToBag({q})
                /\ UNCHANGED user_game_sessions
        /\ UNCHANGED <<clock, n_sent, scoring>>

\* Solo Submit after its second await: the next challenge has come back.
SendChallenged ==
    \E q \in BagToSet(pending) :
        /\ q.at = "challenge"
        /\ user_game_sessions' =
               IF Holds(user_game_sessions, q)
               THEN LET session == Object(user_game_sessions, q)
                        ai_response == GrokText(<<"Counter-attack round", q.round>>,
                                                <<session.players[q.p].name>>)
                    IN  Written(user_game_sessions, q,
                                solo_challenged(session, ai_response))
               ELSE user_game_sessions
        /\ pending' = pending (-) SetToBag({q})
        /\ UNCHANGED <<clock, n_sent, scoring>>

\* Finishing duel Submit after its awaits: the scores of the two logs have
\* come back; the averages are stored and the winner is set.
SendAveraged ==
    \E q \in BagToSet(pending) :
        /\ q.at = "scores"
        /\ IF Holds(user_game_sessions, q)
           THEN LET session == Object(user_game_sessions, q)
                IN  \E f \in ScoreSeqs(Len(session.players[1].messages)),
                       g \in ScoreSeqs(Len(session.players[2].messages)) :
                        user_game_sessions' =
                            Written(user_game_sessions, q, duel_scored(session, f, g))
           ELSE UNCHANGED user_game_sessions
        /\ pending' = pending (-) SetToBag({q})
        /\ UNCHANGED <<clock, n_sent, scoring>>

NextAsync ==
    \/ StartAsync \/ StartResume
    \/ JoinAsync \/ JoinResume
    \/ SendAsync \/ SendScored \/ SendChallenged \/ SendAveraged
    \/ Status

SpecAsync == Init /\ [][NextAsync]_vars

-----------------------------------------------------------------------------
(* Vocabulary of the properties *)

\* The sessions of a caller, and of the whole store.
SessionsOf(c) == {user_game_sessions[c][i] : i \in 1 .. Len(user_game_sessions[c])}
AllSessions == UNION {SessionsOf(c) : c \in Callers}
Live(s) == s.state = WAITING \/ s.state = ACTIVE
LiveOf(c) == {s \in SessionsOf(c) : Live(s)}
IsFresh(s) == \A i \in 1 .. Len(s.players) : s.players[i].messages = <<>>

-----------------------------------------------------------------------------
\* C1: every caller has at most one session that is waiting or active, and a
\* Create issued while the caller has one returns that session's identifier
\* and leaves the store as it is, whatever the mode asked for.
C1_OneInFlightSession ==
    [](/\ \A c \in Callers : Cardinality(LiveOf(c)) <= 1
       /\ \A c \in Callers, mode \in GameMode, name \in Names, uuid \in Suffixes :
             LiveOf(c) # {} =>
                 LET r == start_backchodi_battle(user_game_sessions, c, mode, name,
                                                 uuid, clock + 1)
                 IN  /\ r.reply.text = "Game already in progress!"
                     /\ \E s \in LiveOf(c) : r.reply.detail = s.session_id
                     /\ r.store = user_game_sessions)

\* A caller holds a finished session and, created after it, a live one.
C1_Witness ==
    \E c \in Callers :
        /\ Cardinality(SessionsOf(c)) = 2
        /\ Cardinality(LiveOf(c)) = 1

\* C2: an accepted Create registers exactly one player; a solo session is then
\* active in round 1 with the opening challenge as its only content-log entry,
\* a duel session is waiting in round 0 with an empty content log.
C2_AcceptedCreate ==
    \A c \in Callers, mode \in GameMode, name \in Names :
        \A uuid \in Uuids(user_game_sessions, c) :
            LET r == start_backchodi_battle(user_game_sessions, c, mode, name,
                                            uuid, clock + 1)
                s == Get(r.store[c], <<c, uuid>>)
            IN  Created(r.reply) =>
                    /\ <<c, uuid>> \in Keys(r.store[c])
                    /\ Len(s.players) = 1
                    /\ s.players[1].name = name
                    /\ s.mode = mode
                    /\ mode = SOLO =>
                           /\ s.state = ACTIVE
                           /\ s.current_round = 1
                           /\ Len(s.ai_messages) = 1
                           /\ s.ai_messages[1].context = <<"Solo battle start", 0>>
                    /\ mode = DUEL =>
                           /\ s.state = WAITING
                           /\ s.current_round = 0
                           /\ s.ai_messages = <<>>

\* One caller has just started a solo session, another a duel.
C2_Witness ==
    /\ \E s \in AllSessions :
          s.mode = SOLO /\ s.current_round = 1 /\ IsFresh(s) /\ Len(s.ai_messages) = 1
    /\ \E s \in AllSessions : s.mode = DUEL /\ s.state = WAITING

\* C3: a Join on a session the caller holds succeeds exactly when the session
\* is a duel that is waiting; the session then has two players, is active in
\* round 1, and has one content-log entry more.
C3_JoinSucceedsOnWaitingDuel ==
    \A c \in Callers, name \in Names :
        \A s \in SessionsOf(c) :
            LET r == join_battle(user_game_sessions, c, s.session_id, name)
                t == Get(r.store[c], s.session_id)
            IN  /\ r.reply.error = None
                /\ (r.reply.text = "Battle Joined Successfully!")
                       <=> (s.mode = DUEL /\ s.state = WAITING)
                /\ r.reply.text = "Battle Joined Successfully!" =>
                       /\ Len(t.players) = 2
                       /\ t.players[2].name = name
                       /\ t.state = ACTIVE
                       /\ t.current_round = 1
                       /\ Len(t.ai_messages) = Len(s.ai_messages) + 1

\* A duel that has just been joined.
C3_Witness ==
    \E s \in AllSessions :
        /\ s.mode = DUEL /\ s.state = ACTIVE /\ s.current_round = 1
        /\ Len(s.players) = 2 /\ Len(s.ai_messages) = 1 /\ IsFresh(s)

\* C4: a session has one player while it is waiting, two when it is a duel
\* that is active or finished, and one when it is solo; no Join on a session
\* that has two players succeeds.
C4_PlayerCount ==
    \A c \in Callers :
        \A s \in SessionsOf(c) :
            /\ s.state = WAITING => Len(s.players) = 1
            /\ (s.mode = DUEL /\ s.state \in {ACTIVE, FINISHED}) => Len(s.players) = 2
            /\ s.mode = SOLO => Len(s.players) = 1
            /\ Len(s.players) >= 2 =>
                   \A name \in Names :
                       LET r == join_battle(user_game_sessions, c, s.session_id, name)
                       IN  /\ r.reply.text # "Battle Joined Successfully!"
                           /\ r.store = user_game_sessions

\* A finished duel with its two players beside a waiting duel with one.
C4_Witness ==
    /\ \E s \in AllSessions : s.mode = DUEL /\ s.state = FINISHED /\ Len(s.players) = 2
    /\ \E s \in AllSessions : s.mode = DUEL /\ s.state = WAITING /\ Len(s.players) = 1

\* C5: in solo mode every accepted Submit adds exactly 1 to current_round, and
\* the session is finished exactly when current_round exceeds max_rounds: it
\* finishes on the max_rounds-th accepted Submit and is active before.
C5_SoloRounds ==
    \A c \in Callers :
        \A s \in SessionsOf(c) :
            s.mode = SOLO =>
                /\ s.state \in {ACTIVE, FINISHED}
                /\ Len(s.players[1].messages) = s.current_round - 1
                /\ (s.state = FINISHED) <=> (s.current_round > s.max_rounds)
                /\ s.state = FINISHED => Len(s.players[1].messages) = s.max_rounds
                /\ s.state = ACTIVE => Len(s.players[1].messages) < s.max_rounds
                /\ \A name \in Names, message \in Messages :
                     \A gen \in SendGens(user_game_sessions, c, s.session_id, name,
                                         message) :
                         LET r == send_backchodi(user_game_sessions, c, s.session_id,
                                                 name, message, gen)
                             t == Get(r.store[c], s.session_id)
                         IN  Accepted(r.reply) =>
                                 /\ t.current_round = s.current_round + 1
                                 /\ Len(t.players[1].messages) =
                                        Len(s.players[1].messages) + 1

\* A solo session finished by its max_rounds-th message.
C5_Witness ==
    \E s \in AllSessions :
        /\ s.mode = SOLO /\ s.state = FINISHED
        /\ s.current_round = s.max_rounds + 1
        /\ Len(s.players[1].messages) = s.max_rounds

\* C6: in duel mode a Submit adds 1 to current_round only when the messages of
\* both players then number an even total; the session is finished when
\* current_round exceeds max_rounds, and every message of each log has then
\* been scored exactly once (a player's score is the average of as many scores
\* as the log has messages).
C6_DuelRounds ==
    [](\A c \in Callers :
           \A s \in SessionsOf(c) :
               (s.mode = DUEL /\ s.state # WAITING) =>
                   /\ s.current_round = 1 + (TotalMessages(s) \div 2)
                   /\ (s.state = FINISHED) <=> (s.current_round > s.max_rounds)
                   /\ s.state = FINISHED =>
                          \A i \in 1 .. 2 :
                              LET n == Len(s.players[i].messages)
                                  score == s.players[i].score
                              IN  IF n = 0
                                  THEN score = Zero
                                  ELSE /\ score.den = n
                                       /\ n * MinScore <= score.num
                                       /\ score.num <= n * MaxScore
                   /\ \A name \in Names, message \in Messages :
                        \A gen \in SendGens(user_game_sessions, c, s.session_id, name,
                                            message) :
                            LET r == send_backchodi(user_game_sessions, c, s.session_id,
                                                    name, message, gen)
                                t == Get(r.store[c], s.session_id)
                            IN  Accepted(r.reply) =>
                                    /\ TotalMessages(t) = TotalMessages(s) + 1
                                    /\ t.current_round =
                                           IF TotalMessages(t) % 2 = 0
                                           THEN s.current_round + 1
                                           ELSE s.current_round)

\* A finished duel in which both players have sent messages.
C6_Witness ==
    \E s \in AllSessions :
        /\ s.mode = DUEL /\ s.state = FINISHED
        /\ s.players[1].messages # <<>> /\ s.players[2].messages # <<>>
        /\ TotalMessages(s) = 2 * s.max_rounds

\* C7: when a duel finishes, the winner is the name of the player whose
\* average is strictly higher, and none when the averages are equal; the
\* finishing Submit raises no error, also when a player's log is empty (that
\* player's average is 0).
C7_Winner ==
    [](/\ \A s \in AllSessions :
             (s.mode = DUEL /\ s.state = FINISHED) =>
                 LET a == s.players[1].score
                     b == s.players[2].score
                 IN  /\ a.den > 0 /\ b.den > 0
                     /\ \A i \in 1 .. 2 : s.players[i].messages = <<>> =>
                                              s.players[i].score.num = 0
                     /\ a.num * b.den > b.num * a.den => s.winner = s.players[1].name
                     /\ a.num * b.den < b.num * a.den => s.winner = s.players[2].name
                     /\ a.num * b.den = b.num * a.den => s.winner = None
       /\ \A c \in Callers :
             \A s \in SessionsOf(c) :
                 (s.mode = DUEL /\ s.state = ACTIVE) =>
                     \A name \in Names, message \in Messages :
                         \A gen \in SendGens(user_game_sessions, c, s.session_id, name,
                                             message) :
                             send_backchodi(user_game_sessions, c, s.session_id, name,
                                            message, gen).reply.error = None)

\* A duel won by player 1 against a player 2 who sent nothing.
C7_Witness ==
    \E s \in AllSessions :
        /\ s.mode = DUEL /\ s.state = FINISHED
        /\ s.players[2].messages = <<>>
        /\ s.players[2].score = Zero
        /\ s.players[1].name # s.players[2].name
        /\ s.winner = s.players[1].name

\* C8: a session has a winner only if it is a finished duel; a solo session
\* never has one.
C8_WinnerOnlyInFinishedDuel ==
    \A s \in AllSessions :
        /\ s.winner # None => (s.state = FINISHED /\ s.mode = DUEL)
        /\ s.mode = SOLO => s.winner = None

\* A finished duel that has a winner, beside a solo session that has none.
C8_Witness ==
    /\ \E s \in AllSessions : s.mode = DUEL /\ s.state = FINISHED /\ s.winner # None
    /\ \E s \in AllSessions : s.mode = SOLO /\ s.winner = None

\* The order of the states.
Rank(state) ==
    CASE state = WAITING -> 0
      [] state = ACTIVE -> 1
      [] state = SCORING -> 2
      [] state = FINISHED -> 3

\* The session at place i of caller c's bucket is the same one after the step
\* (a bucket never shrinks; created_at tells a session from one that took its key).
SameSession(c, i) ==
    /\ i <= Len(user_game_sessions'[c])
    /\ user_game_sessions'[c][i].created_at = user_game_sessions[c][i].created_at

\* C9: the state of a session only moves forward along waiting, active,
\* finished: no step takes a session back to waiting or out of finished, and a
\* solo session is never waiting.
C9_StateMovesForward ==
    [][\/ user_game_sessions' = user_game_sessions
       \/ /\ \A c \in Callers :
                \A i \in 1 .. Len(user_game_sessions[c]) :
                    SameSession(c, i) =>
                        /\ Rank(user_game_sessions[c][i].state)
                               <= Rank(user_game_sessions'[c][i].state)
                        /\ user_game_sessions'[c][i].state = WAITING =>
                               user_game_sessions[c][i].state = WAITING
                        /\ user_game_sessions[c][i].state = FINISHED =>
                               user_game_sessions'[c][i].state = FINISHED
          /\ \A c \in Callers :
                \A i \in 1 .. Len(user_game_sessions'[c]) :
                    user_game_sessions'[c][i].mode = SOLO =>
                        user_game_sessions'[c][i].state # WAITING]_vars

\* A duel that went from waiting through active to finished, and a later session.
C9_Witness ==
    \E c \in Callers :
        /\ Len(user_game_sessions[c]) = 2
        /\ user_game_sessions[c][1].mode = DUEL
        /\ user_game_sessions[c][1].state = FINISHED
        /\ user_game_sessions[c][2].state = ACTIVE

\* C10: over Create, Join and Submit run to completion, the current_round of a
\* session never decreases and never exceeds max_rounds + 1.
C10_RoundMonotoneAndBounded ==
    [][\/ user_game_sessions' = user_game_sessions
       \/ \A c \in Callers :
              /\ \A i \in 1 .. Len(user_game_sessions[c]) :
                     SameSession(c, i) =>
                         user_game_sessions[c][i].current_round
                             <= user_game_sessions'[c][i].current_round
              /\ \A i \in 1 .. Len(user_game_sessions'[c]) :
                     user_game_sessions'[c][i].current_round
                         <= user_game_sessions'[c][i].max_rounds + 1]_vars

\* A finished duel, its round counter at max_rounds + 1.
C10_Witness ==
    \E s \in AllSessions :
        /\ s.current_round = s.max_rounds + 1
        /\ s.mode = DUEL
        /\ s.state = FINISHED

\* What every request does to and answers about a finished session s of caller c.
FinishedIsClosed(c, s) ==
    /\ \A name \in Names, message \in Messages :
          \A gen \in SendGens(user_game_sessions, c, s.session_id, name, message) :
              LET r == send_backchodi(user_game_sessions, c, s.session_id, name,
                                      message, gen)
              IN  /\ r.reply = TextContent("Game is not active!", NoId)
                  /\ r.store = user_game_sessions
    /\ \A name \in Names :
          LET r == join_battle(user_game_sessions, c, s.session_id, name)
          IN  /\ r.reply.error = None
              /\ r.reply.text = IF s.mode = DUEL
                                THEN "Game is not accepting new players!"
                                ELSE "This is not a duel battle!"
              /\ r.store = user_game_sessions
    /\ LET r == get_game_status(user_game_sessions, c, s.session_id)
       IN  /\ r.reply.text = "Game Status"
           /\ r.reply.detail.session_id = s.session_id
           /\ r.reply.detail.state = FINISHED
           /\ r.reply.detail.current_round = s.current_round
           /\ r.reply.detail.winner = s.winner
           /\ \A i \in 1 .. Len(s.players) :
                  /\ r.reply.detail.players[i].name = s.players[i].name
                  /\ r.reply.detail.players[i].score = s.players[i].score
           /\ r.store = user_game_sessions
    /\ list_active_games(user_game_sessions, c).store = user_game_sessions
    /\ \A mode \in GameMode, name \in Names :
          \A uuid \in Uuids(user_game_sessions, c) :
              LET r == start_backchodi_battle(user_game_sessions, c, mode, name,
                                              uuid, clock + 1)
              IN  \A i \in 1 .. Len(r.store[c]) :
                      r.store[c][i].created_at = s.created_at => r.store[c][i] = s

\* C11: once a session is finished, no Create, Join, Submit, Status or List
\* changes any of its fields; a Submit and a Join on it are answered with a
\* text that rejects them, and Status still reports it.
C11_FinishedIsFinal ==
    /\ [](\A c \in Callers :
             \A s \in SessionsOf(c) : s.state = FINISHED => FinishedIsClosed(c, s))
    /\ [][\/ user_game_sessions' = user_game_sessions
          \/ \A c \in Callers :
                   \A i \in 1 .. Len(user_game_sessions[c]) :
                       (user_game_sessions[c][i].state = FINISHED /\ SameSession(c, i))
                           => user_game_sessions'[c][i] = user_game_sessions[c][i]]_vars

\* A finished solo session, and messages sent to the session created after it.
C11_Witness ==
    \E c \in Callers :
        /\ Len(user_game_sessions[c]) = 2
        /\ user_game_sessions[c][1].mode = SOLO
        /\ user_game_sessions[c][1].state = FINISHED
        /\ ~IsFresh(user_game_sessions[c][2])

\* C12: each of Create, Join, Submit, Status and List, called with the empty
\* caller identifier, fails with the protocol error INVALID_PARAMS and leaves
\* the store as it is.
C12_EmptyCallerIsInvalidParams ==
    LET st == user_game_sessions
        replies ==
            {start_backchodi_battle(st, "", mode, name, uuid, clock + 1) :
                 mode \in GameMode, name \in Names, uuid \in Suffixes}
            \cup {join_battle(st, "", id, name) : id \in SessionIds, name \in Names}
            \cup {send_backchodi(st, "", id, name, message, NoGen) :
                      id \in SessionIds, name \in Names, message \in Messages}
            \cup {get_game_status(st, "", id) : id \in SessionIds}
            \cup {list_active_games(st, "")}
    IN  \A r \in replies : r.reply.error = INVALID_PARAMS /\ r.store = st

\* The texts that reject a Submit.
SubmitRejections ==
    {"Invalid session ID! Game not found.", "Game is not active!",
     "Player not found in this game!"}

\* Caller c does not hold session id, or the session is neither active nor
\* scoring, or none of its players is called name.
SubmitIsBad(c, id, name) ==
    \/ \A s \in SessionsOf(c) : s.session_id # id
    \/ \E s \in SessionsOf(c) :
           /\ s.session_id = id
           /\ \/ s.state \notin {ACTIVE, SCORING}
              \/ \A i \in 1 .. Len(s.players) : s.players[i].name # name

\* C13: a Submit is rejected exactly when the session id is unknown to the
\* caller, the session is neither active nor scoring, or player_name is not
\* the name of a registered player; the rejection is a text result, raises no
\* error and leaves the store as it is.
C13_RejectedSubmit ==
    [](\A c \in Callers, id \in SessionIds, name \in Names, message \in Messages :
           \A gen \in SendGens(user_game_sessions, c, id, name, message) :
               LET r == send_backchodi(user_game_sessions, c, id, name, message, gen)
               IN  IF SubmitIsBad(c, id, name)
                   THEN /\ r.reply.error = None
                        /\ r.reply.text \in SubmitRejections
                        /\ r.store = user_game_sessions
                   ELSE Accepted(r.reply))

\* A caller holds a finished session and an active one that has no player
\* called "B", and does not hold the other caller's session ids.
C13_Witness ==
    \E c \in Callers :
        /\ \E s \in SessionsOf(c) : s.state = FINISHED
        /\ \E s \in SessionsOf(c) :
               /\ s.state = ACTIVE
               /\ \A i \in 1 .. Len(s.players) : s.players[i].name # "B"
        /\ \E id \in SessionIds : id \notin Keys(user_game_sessions[c])

\* The texts that reject a Join.
JoinRejections ==
    {"Invalid session ID! Game not found.", "This is not a duel battle!",
     "Game is not accepting new players!", "Battle is already full!"}

\* Caller c does not hold session id, or the session is not a duel, or is not
\* waiting, or has two players already.
JoinIsBad(c, id) ==
    \/ \A s \in SessionsOf(c) : s.session_id # id
    \/ \E s \in SessionsOf(c) :
           /\ s.session_id = id
           /\ (s.mode # DUEL \/ s.state # WAITING \/ Len(s.players) >= 2)

\* C14: a Join is rejected exactly when the session id is unknown to the
\* caller, the session is not a duel, is not waiting, or has two players
\* already; the rejection is a text result, raises no error and leaves the
\* players, state, round and content log of every session as they are.
C14_RejectedJoin ==
    [](\A c \in Callers, id \in SessionIds, name \in Names :
           LET r == join_battle(user_game_sessions, c, id, name)
           IN  IF JoinIsBad(c, id)
               THEN /\ r.reply.error = None
                    /\ r.reply.text \in JoinRejections
                    /\ r.store = user_game_sessions
               ELSE r.reply.text = "Battle Joined Successfully!")

\* A caller holds a finished duel and an active solo session.
C14_Witness ==
    \E c \in Callers :
        /\ \E s \in SessionsOf(c) : s.mode = DUEL /\ s.state = FINISHED
        /\ \E s \in SessionsOf(c) : s.mode = SOLO /\ s.state = ACTIVE

\* C15: Status and List are read-only: whatever the store and the arguments
\* (the caller identifier may be missing, the session id may be unknown or
\* another caller's), every caller's sessions and every field of every
\* session are the same after the call as before.
C15_StatusAndListReadOnly ==
    \A c \in CallerIds :
        /\ list_active_games(user_game_sessions, c).store = user_game_sessions
        /\ \A id \in SessionIds :
               get_game_status(user_game_sessions, c, id).store = user_game_sessions

\* A caller holds a finished session and a duel that waits for its opponent.
C15_Witness ==
    \E c \in Callers :
        /\ Len(user_game_sessions[c]) = 2
        /\ user_game_sessions[c][1].state = FINISHED
        /\ user_game_sessions[c][2].state = WAITING

\* C16: List returns exactly the caller's sessions that are waiting or active,
\* each once and in the order of their insertion; it never returns a finished
\* session or a session of another caller.
C16_ListIsTheLiveSessions ==
    \A c \in Callers :
        LET bucket == user_game_sessions[c]
            r == list_active_games(user_game_sessions, c)
            ids == r.reply.detail
        IN  /\ r.reply.error = None
            /\ (r.reply.text = "No active games found!") <=> (LiveOf(c) = {})
            /\ \A i \in 1 .. Len(bucket) :
                   Live(bucket[i]) <=>
                       \E k \in 1 .. Len(ids) : ids[k] = bucket[i].session_id
            /\ \A k \in 1 .. Len(ids) :
                   /\ \E i \in 1 .. Len(bucket) : ids[k] = bucket[i].session_id
                   /\ \A d \in Callers \ {c} :
                          \A s \in SessionsOf(d) : ids[k] # s.session_id
            /\ \A j, k \in 1 .. Len(ids) :
                   j < k => \E i1, i2 \in 1 .. Len(bucket) :
                                /\ i1 < i2
                                /\ ids[j] = bucket[i1].session_id
                                /\ ids[k] = bucket[i2].session_id

\* A caller with a finished session and then a live one is listed the live
\* one alone.
C16_Witness ==
    \E c \in Callers :
        /\ Len(user_game_sessions[c]) = 2
        /\ user_game_sessions[c][1].state = FINISHED
        /\ Live(user_game_sessions[c][2])
        /\ list_active_games(user_game_sessions, c).reply.detail
               = <<user_game_sessions[c][2].session_id>>

\* A float that is a number from MinScore to MaxScore.
InRange(x) ==
    /\ x.kind = "fin"
    /\ x.den > 0
    /\ MinScore * x.den <= x.num
    /\ x.num <= MaxScore * x.den

\* C18: every score score_message_with_grok returns is a number in [1.0, 10.0]:
\* the heuristic's (any message, the empty one and one with no keyword
\* included, any jitter), the one parsed from a SCORE|FEEDBACK response, the
\* first number of a response, and the default.
C18_ScoreInRange ==
    scoring.score # NotScored => InRange(scoring.score)

\* The heuristic has scored the empty message, with the lowest jitter, 4.0.
C18_Witness ==
    /\ ~scoring.run.GROK_CLIENT
    /\ scoring.message = [len |-> 0, slang |-> FALSE, emphasis |-> FALSE]
    /\ scoring.jitter = Fin(0 - 1, 1)
    /\ scoring.score = Fin(4, 1)

\* What a run of the Content Generator is not to change: of every session the
\* state, the round, the players' names, their message logs and the length of
\* the content log.
Shape(session) ==
    [state |-> session.state,
     current_round |-> session.current_round,
     names |-> [i \in 1 .. Len(session.players) |-> session.players[i].name],
     logs |-> [i \in 1 .. Len(session.players) |-> session.players[i].messages],
     contents |-> Len(session.ai_messages)]
ShapeOf(st) == [c \in Callers |-> [i \in 1 .. Len(st[c]) |-> Shape(st[c][i])]]

\* The reply and the updates of a request, as far as no run is to change them.
Outcome(r) == [error |-> r.reply.error, text |-> r.reply.text, shape |-> ShapeOf(r.store)]

\* C17: whether the calls of the Content Generator are answered, raise, or
\* find no client, Create, Join and Submit return a text result (never a
\* protocol error) of the same kind and make the same updates of state, round,
\* players and message logs; only texts and scores differ.
C17_GeneratorFailureIsContained ==
    \A c \in Callers :
        /\ \A mode \in GameMode, name \in Names :
              \A uuid \in Uuids(user_game_sessions, c) :
                  LET answered == Outcome(start_backchodi_battle_grok(
                                      user_game_sessions, c, mode, name, uuid,
                                      clock + 1, GrokAnswers))
                  IN  /\ answered.error = None
                      /\ \A run \in GrokRuns :
                             Outcome(start_backchodi_battle_grok(user_game_sessions,
                                 c, mode, name, uuid, clock + 1, run)) = answered
        /\ \A id \in Keys(user_game_sessions[c]), name \in Names :
              /\ LET answered == Outcome(join_battle_grok(user_game_sessions, c, id,
                                                          name, GrokAnswers))
                 IN  /\ answered.error = None
                     /\ \A run \in GrokRuns :
                            Outcome(join_battle_grok(user_game_sessions, c, id,
                                                     name, run)) = answered
              /\ \A message \in Messages :
                    LET gens == SendGens(user_game_sessions, c, id, name, message)
                        answered == Outcome(send_backchodi_grok(user_game_sessions,
                                        c, id, name, message, CHOOSE g \in gens : TRUE,
                                        GrokAnswers))
                    IN  /\ answered.error = None
                        /\ \A gen \in gens, run \in GrokRuns :
                               Outcome(send_backchodi_grok(user_game_sessions, c,
                                   id, name, message, gen, run)) = answered

\* A solo session one message from its end: the next Submit is scored and
\* gets the verdict.
C17_Witness ==
    \E s \in AllSessions :
        /\ s.mode = SOLO /\ s.state = ACTIVE
        /\ s.current_round = s.max_rounds
        /\ Len(s.ai_messages) = s.max_rounds

\* C19: a solo player's total is the sum of one score per message sent, each in
\* [MinScore, MaxScore]; a finished solo session has had exactly max_rounds of
\* them, so the final average, total / max_rounds, lies in [MinScore, MaxScore].
C19_SoloAverage ==
    \A c \in Callers :
        \A s \in SessionsOf(c) :
            s.mode = SOLO =>
                LET total == s.players[1].score
                    n == Len(s.players[1].messages)
                IN  /\ total.den = 1
                    /\ n * MinScore <= total.num
                    /\ total.num <= n * MaxScore
                    /\ s.state = FINISHED => n = s.max_rounds
                    /\ \A name \in Names, message \in Messages :
                         \A gen \in SendGens(user_game_sessions, c, s.session_id,
                                             name, message) :
                             LET r == send_backchodi(user_game_sessions, c,
                                          s.session_id, name, message, gen)
                                 t == Get(r.store[c], s.session_id)
                                 avg == r.reply.detail
                             IN  /\ Accepted(r.reply) =>
                                        t.players[1].score.num = total.num + gen.score
                                 /\ r.reply.text = "GAME FINISHED!" =>
                                        /\ n + 1 = s.max_rounds
                                        /\ avg.num = total.num + gen.score
                                        /\ avg.den = s.max_rounds
                                        /\ MinScore * avg.den <= avg.num
                                        /\ avg.num <= MaxScore * avg.den

\* A finished solo session whose average is the lowest there is, 1.0, beside
\* one whose Submit is about to finish it.
C19_Witness ==
    /\ \E s \in AllSessions :
          /\ s.mode = SOLO /\ s.state = FINISHED
          /\ s.players[1].score = [num |-> MinScore * s.max_rounds, den |-> 1]
    /\ \E s \in AllSessions :
          /\ s.mode = SOLO /\ s.state = ACTIVE
          /\ Len(s.players[1].messages) = s.max_rounds - 1

\* C20: no operation removes a session from a caller's mapping or replaces an
\* existing entry: every session a caller holds is still held, under the same
\* id, after any step, and the id of a newly created session is none of the
\* ids the caller already held.
C20_SessionsOnlyAdded ==
    [][\A c \in Callers :
           /\ \A i \in 1 .. Len(user_game_sessions[c]) :
                  /\ SameSession(c, i)
                  /\ user_game_sessions'[c][i].session_id
                         = user_game_sessions[c][i].session_id
           /\ \A j \in 1 .. Len(user_game_sessions'[c]) :
                  (clock' # clock /\ user_game_sessions'[c][j].created_at = clock')
                      => user_game_sessions'[c][j].session_id
                             \notin Keys(user_game_sessions[c])]_vars

\* The answer to a request that names a session the caller does not hold.
NotFound == TextContent("Invalid session ID! Game not found.", NoId)

\* Every request of caller c, with any session id either of the two holds,
\* leaves the sessions of caller d as they are.
LeavesAlone(c, d) ==
    LET st == user_game_sessions
    IN  /\ \A mode \in GameMode, name \in Names :
              \A uuid \in Uuids(st, c) :
                  start_backchodi_battle(st, c, mode, name, uuid, clock + 1).store[d]
                      = st[d]
        /\ list_active_games(st, c).store[d] = st[d]
        /\ \A id \in Keys(st[c]) \cup Keys(st[d]) :
              /\ get_game_status(st, c, id).store[d] = st[d]
              /\ \A name \in Names :
                     /\ join_battle(st, c, id, name).store[d] = st[d]
                     /\ \A message \in Messages :
                            \A gen \in SendGens(st, c, id, name, message) :
                                send_backchodi(st, c, id, name, message, gen).store[d]
                                    = st[d]

\* Join, Submit and Status of caller c on a session that only caller d holds
\* are answered not-found and change nothing.
HiddenFrom(c, d) ==
    LET st == user_game_sessions
    IN  \A s \in SessionsOf(d) :
            s.session_id \notin Keys(st[c]) =>
                /\ get_game_status(st, c, s.session_id) = [store |-> st, reply |-> NotFound]
                /\ \A name \in Names :
                       /\ join_battle(st, c, s.session_id, name)
                              = [store |-> st, reply |-> NotFound]
                       /\ \A message \in Messages :
                              \A gen \in SendGens(st, c, s.session_id, name, message) :
                                  send_backchodi(st, c, s.session_id, name, message, gen)
                                      = [store |-> st, reply |-> NotFound]

Sent(s) == SeqSum([i \in 1 .. Len(s.players) |-> Len(s.players[i].messages)])

\* In the active duel s of caller c a Submit under either registered name is
\* accepted and lands in the log of the first player of that name.
EitherMaySubmit(c, s) ==
    \A i \in 1 .. Len(s.players), message \in Messages :
        \A gen \in SendGens(user_game_sessions, c, s.session_id, s.players[i].name, message) :
            LET r == send_backchodi(user_game_sessions, c, s.session_id,
                                    s.players[i].name, message, gen)
                p == FindPlayer(s, s.players[i].name)
                after == Get(r.store[c], s.session_id)
            IN  /\ Accepted(r.reply)
                /\ Sent(after) = Sent(s) + 1
                /\ after.players[p].messages = Append(s.players[p].messages, message)
                /\ after.state = FINISHED <=> Sent(after) = 2 * s.max_rounds

\* C22: duel turn order is not enforced: an active duel accepts a Submit from
\* either registered player whoever submitted last, an active duel holds fewer
\* than 2 x max_rounds messages and a finished one exactly that many, and a
\* duel finishes in the step that accepts its (2 x max_rounds)-th message,
\* whatever the split between the two logs.
C22_NoTurnOrder ==
    /\ [](\A c \in Callers :
             \A s \in SessionsOf(c) :
                 s.mode = DUEL =>
                     /\ s.state = ACTIVE => Sent(s) < 2 * s.max_rounds /\ EitherMaySubmit(c, s)
                     /\ s.state = FINISHED => Sent(s) = 2 * s.max_rounds)
    /\ [][\/ user_game_sessions' = user_game_sessions
          \/ \A c \in Callers :
                   \A i \in 1 .. Len(user_game_sessions[c]) :
                       LET s == user_game_sessions[c][i]
                       IN  (SameSession(c, i) /\ s.mode = DUEL /\ s.state = ACTIVE
                                /\ user_game_sessions'[c][i].state = FINISHED)
                               => /\ Sent(s) = 2 * s.max_rounds - 1
                                  /\ Sent(user_game_sessions'[c][i]) = 2 * s.max_rounds]_vars

\* A duel of two different names that finished on messages of player 2 alone.
C22_Witness ==
    \E s \in AllSessions :
        /\ s.mode = DUEL /\ s.state = FINISHED
        /\ s.players[1].name # s.players[2].name
        /\ s.players[1].messages = <<>>
        /\ Len(s.players[2].messages) = 2 * s.max_rounds

\* The lower of two integers.
Lower(a, b) == IF a <= b THEN a ELSE b

\* The challenge a solo session poses in round n.
ChallengeOf(s, n) ==
    IF n = 1
    THEN GrokText(<<"Solo battle start", 0>>, <<s.players[1].name>>)
    ELSE GrokText(<<"Counter-attack round", n>>, <<s.players[1].name>>)

\* C25: in solo mode the content log holds min(current_round, max_rounds)
\* entries, entry n being the challenge of round n, and the player's message
\* log holds current_round - 1 messages, so that the challenge a Submit is
\* scored against is the last entry; the content log only grows at its end,
\* and a step appends a challenge if and only if it advances the round to a
\* round within max_rounds.
C25_SoloContentLog ==
    /\ [](\A s \in AllSessions :
             s.mode = SOLO =>
                 /\ Len(s.ai_messages) = Lower(s.current_round, s.max_rounds)
                 /\ Len(s.players[1].messages) = s.current_round - 1
                 /\ \A n \in 1 .. Len(s.ai_messages) : s.ai_messages[n] = ChallengeOf(s, n)
                 /\ s.state = ACTIVE =>
                        s.ai_messages[Len(s.ai_messages)] = ChallengeOf(s, s.current_round))
    /\ [][\/ user_game_sessions' = user_game_sessions
          \/ \A c \in Callers :
                   \A i \in 1 .. Len(user_game_sessions[c]) :
                       LET s == user_game_sessions[c][i]
                           t == user_game_sessions'[c][i]
                       IN  (SameSession(c, i) /\ s.mode = SOLO) =>
                               /\ Len(t.ai_messages) >= Len(s.ai_messages)
                               /\ SubSeq(t.ai_messages, 1, Len(s.ai_messages)) = s.ai_messages
                               /\ Len(t.ai_messages) = Len(s.ai_messages) + 1
                                      <=> (t.current_round = s.current_round + 1
                                             /\ t.current_round <= t.max_rounds)
                               /\ Len(t.ai_messages) # Len(s.ai_messages) + 1
                                      => t.ai_messages = s.ai_messages]_vars

\* A solo session after its last Submit: the round is past max_rounds and the
\* content log stops at the challenge of round max_rounds.
C25_Witness ==
    \E s \in AllSessions :
        /\ s.mode = SOLO
        /\ s.current_round = s.max_rounds + 1
        /\ Len(s.ai_messages) = s.max_rounds
        /\ Len(s.players[1].messages) = s.max_rounds

\* A duel whose two players registered under one name.
Namesakes(s) ==
    s.mode = DUEL /\ Len(s.players) = 2 /\ s.players[1].name = s.players[2].name

\* C28: Join accepts the creator's own name as player 2; in such a duel every
\* Submit under that name is accepted into player 1's log and leaves player 2
\* as it is, player 2's log stays empty, and the duel finishes with
\* 2 x max_rounds messages in player 1's log and a score of 0 for player 2.
C28_NamesakeDuel ==
    /\ [](\A c \in Callers :
             \A s \in SessionsOf(c) :
                 /\ (s.mode = DUEL /\ s.state = WAITING) =>
                        LET r == join_battle(user_game_sessions, c, s.session_id,
                                             s.players[1].name)
                        IN  /\ r.reply = TextContent("Battle Joined Successfully!", NoId)
                            /\ Namesakes(Get(r.store[c], s.session_id))
                 /\ Namesakes(s) =>
                        /\ s.players[2].messages = <<>>
                        /\ s.state = FINISHED =>
                               /\ Len(s.players[1].messages) = 2 * s.max_rounds
                               /\ s.players[2].score = Zero
                        /\ s.state = ACTIVE =>
                               \A message \in Messages :
                                   \A gen \in SendGens(user_game_sessions, c, s.session_id,
                                                       s.players[1].name, message) :
                                       LET r == send_backchodi(user_game_sessions, c,
                                                    s.session_id, s.players[1].name,
                                                    message, gen)
                                           after == Get(r.store[c], s.session_id)
                                       IN  /\ Accepted(r.reply)
                                           /\ after.players[1].messages
                                                  = Append(s.players[1].messages, message)
                                           /\ after.players[2] = s.players[2])
    /\ [][\/ user_game_sessions' = user_game_sessions
          \/ \A c \in Callers :
                   \A i \in 1 .. Len(user_game_sessions[c]) :
                       (SameSession(c, i) /\ Namesakes(user_game_sessions[c][i])) =>
                           user_game_sessions'[c][i].players[2]
                               = user_game_sessions[c][i].players[2]]_vars

\* A finished duel of two players of one name.
C28_Witness ==
    \E s \in AllSessions :
        /\ Namesakes(s) /\ s.state = FINISHED
        /\ s.players[1].score # Zero
        /\ s.winner = s.players[1].name

\* C29: no session is ever in state scoring: every session is waiting, active
\* or finished, and every step that adds a message to a log adds it to a
\* session that was active.
C29_NeverScoring ==
    /\ [](\A s \in AllSessions : s.state \in {WAITING, ACTIVE, FINISHED})
    /\ [][\/ user_game_sessions' = user_game_sessions
          \/ \A c \in Callers :
                   \A i \in 1 .. Len(user_game_sessions[c]) :
                       (SameSession(c, i)
                            /\ Sent(user_game_sessions'[c][i]) # Sent(user_game_sessions[c][i]))
                           => user_game_sessions[c][i].state = ACTIVE]_vars

\* A finished session beside one that is taking messages.
C29_Witness ==
    /\ \E s \in AllSessions : s.state = FINISHED /\ Sent(s) > 0
    /\ \E s \in AllSessions : s.state = ACTIVE /\ s.mode = DUEL /\ Sent(s) > 0

\* The suspended requests of bag b that hold session s and wait for `at`.
Awaiting(b, s, at) ==
    LET held == {q \in BagToSet(b) : /\ q.at = at
                                     /\ q.session_id = s.session_id
                                     /\ q.created_at = s.created_at}
    IN  BagCardinality([q \in held |-> b[q]])

\* C23: Submits of one solo session that are suspended together at the scoring
\* call race on the round counter: every score that comes back is added to
\* the total and advances the round by one, whatever the session has become
\* in the meantime, so the round exceeds max_rounds + 1 by up to one per
\* further suspended Submit, and only in a finished session.
C23_RoundRaces ==
    /\ [](\A s \in AllSessions :
             s.mode = SOLO =>
                 /\ s.current_round <= s.max_rounds + MaxPending
                 /\ s.current_round <= Len(s.players[1].messages) + 1
                 /\ s.current_round > s.max_rounds => s.state = FINISHED)
    /\ [][\A c \in Callers :
              \A i \in 1 .. Len(user_game_sessions[c]) :
                  LET s == user_game_sessions[c][i]
                      t == user_game_sessions'[c][i]
                  IN  (SameSession(c, i) /\ s.mode = SOLO
                           /\ Awaiting(pending', s, "score") < Awaiting(pending, s, "score"))
                          => /\ t.current_round = s.current_round + 1
                             /\ \E score \in Scores :
                                    t.players[1].score = Plus(s.players[1].score, score)]_vars

\* Six Submits have been scored in a solo session of five rounds: the round
\* is past max_rounds + 1 and the total is above what five scores can reach.
C23_Witness ==
    \E s \in AllSessions :
        /\ s.mode = SOLO
        /\ s.current_round > s.max_rounds + 1
        /\ Len(s.players[1].messages) > s.max_rounds
        /\ Gt(s.players[1].score, PyDiv(s.max_rounds * MaxScore, 1))

\* C24: once a duel is finished, what Status reports of it, the two scores
\* and the winner do not change any more.
C24_FinishedDuelIsSettled ==
    [][\A c \in Callers :
          \A i \in 1 .. Len(user_game_sessions[c]) :
              LET s == user_game_sessions[c][i]
                  t == user_game_sessions'[c][i]
              IN  (SameSession(c, i) /\ s.mode = DUEL /\ s.state = FINISHED)
                      => /\ t.players[1].score = s.players[1].score
                         /\ t.players[2].score = s.players[2].score
                         /\ t.winner = s.winner
                         /\ get_game_status(user_game_sessions', c, s.session_id).reply
                                = get_game_status(user_game_sessions, c, s.session_id).reply]_vars

\* C26: an active session is in round 1 or later and its content log starts
\* with the opening challenge, and no step lowers the round of a session.
C26_ActiveIsOpened ==
    /\ [](\A s \in AllSessions :
             s.state = ACTIVE =>
                 /\ s.current_round >= 1
                 /\ s.ai_messages # <<>>
                 /\ s.ai_messages[1].context
                        \in {<<"Solo battle start", 0>>, <<"Duel battle topic", 0>>})
    /\ [][\A c \in Callers :
              \A i \in 1 .. Len(user_game_sessions[c]) :
                  SameSession(c, i) =>
                      user_game_sessions'[c][i].current_round
                          >= user_game_sessions[c][i].current_round]_vars

\* C27: a Create checks for a session in progress and inserts its session in
\* one piece: a caller never has two sessions in progress, a Create issued
\* while the caller has one (be its own Create still suspended) returns that
\* session's identifier and leaves the store as it is, and a step adds or
\* replaces a session only for a caller that had none in progress.
C27_CreateIsAtomic ==
    /\ [](\A c \in Callers :
             /\ Cardinality(LiveOf(c)) <= 1
             /\ \A s \in LiveOf(c) :
                    \A mode \in GameMode, name \in Names, uuid \in Suffixes :
                        start_backchodi_battle(user_game_sessions, c, mode, name,
                                               uuid, clock + 1)
                            = [store |-> user_game_sessions,
                               reply |-> TextContent("Game already in progress!",
                                                     s.session_id)])
    /\ [][\A c \in Callers :
              (\/ Len(user_game_sessions'[c]) > Len(user_game_sessions[c])
               \/ \E i \in 1 .. Len(user_game_sessions[c]) : ~SameSession(c, i))
                  => LiveOf(c) = {}]_vars

\* A Create is suspended at the opening challenge; its session is in the
\* store, active, and has already taken a message.
C27_Witness ==
    \E q \in BagToSet(pending) :
        /\ q.op = "start"
        /\ Holds(user_game_sessions, q)
        /\ Live(Object(user_game_sessions, q))
        /\ ~IsFresh(Object(user_game_sessions, q))

====
